---- MODULE Spec2Model ----
(***************************************************************************)
(* Ownership-transfer tokens of the go-links server                        *)
(* (server/src/modules/links/handlers.py): the mutation predicate          *)
(* check_mutate_authorization, the issuance handler create_transfer_link,  *)
(* the redemption handler use_transfer_link and the delete handler, over a *)
(* store of link and user records.  Time is counted in hours.              *)
(***************************************************************************)
EXTENDS Integers, Sequences, FiniteSets, TLC

VARIABLES links, users, admins, now, issued, accepted, last, req, refused, wire

vars == <<links, users, admins, now, issued, accepted, last, req, refused, wire>>

----------------------------------------------------------------------------
(* Bounds of the model *)

\* the clock stops at MaxTime hours
MaxTime == 48
\* the clock advances TickHours at a time
TickHours == 24
\* transfer links issued in one behaviour
MaxIssued == 2
\* longest junk string presented as a token
MaxJunkLen == 2

----------------------------------------------------------------------------
(* Program constants *)

TOKEN_DURATION_IN_HOURS == 24

\* characters of the JWT header segment {"typ":"JWT","alg":"HS256"}
JwtHeaderChars == 36
\* characters of an HS256 signature segment (32 bytes, unpadded base64url)
JwtSignatureChars == 43
\* characters of the JSON claim set besides the digits of sub, o and by
\* ({"exp":<10 digits>,"sub":"link:","tp":"transfer","o":,"by":})
JsonFixedChars == 59

SECRET == "sessions_secret"

----------------------------------------------------------------------------
(* Decimal strings: f'link:{link_id}' and int(payload['sub'][5:]) *)

Digits == <<"0", "1", "2", "3", "4", "5", "6", "7", "8", "9">>

IsDigit(c) == \E i \in 1..10 : Digits[i] = c

DigitVal(c) == (CHOOSE i \in 1..10 : Digits[i] = c) - 1

RECURSIVE FormatInt(_)
FormatInt(n) ==
  IF n < 10 THEN <<Digits[n + 1]>>
  ELSE FormatInt(n \div 10) \o <<Digits[(n % 10) + 1]>>

IsIntLiteral(s) == Len(s) > 0 /\ \A i \in 1..Len(s) : IsDigit(s[i])

RECURSIVE ParseInt(_)
ParseInt(s) ==
  IF Len(s) = 0 THEN 0
  ELSE 10 * ParseInt(SubSeq(s, 1, Len(s) - 1)) + DigitVal(s[Len(s)])

----------------------------------------------------------------------------
(* Records of the store *)

\* None, as returned by a lookup that finds nothing
NoUser == [id |-> 0, email |-> "", organization |-> ""]

NoLink == [id |-> 0, owner |-> "", organization |-> "", shortpath |-> "",
           destination_url |-> ""]

User(i, e, o) == [id |-> i, email |-> e, organization |-> o]

Alice == User(8, "alice@co", "co")
Bob   == User(9, "bob@co", "co")
Dave  == User(10, "dave@co", "co")
Eve   == User(11, "eve@other", "other")

InitialUsers == {Alice, Bob, Dave, Eve}

\* emails a link may be created for; zed@co has no user record yet
InitialOwners == {"alice@co", "zed@co"}

Link(i, owner) ==
  [id |-> i, owner |-> owner, organization |-> "co", shortpath |-> "docs",
   destination_url |-> "https://docs.co"]

\* ids of the links that exist at the start
LinkIds == {42}

\* link ids as they arrive in a URL path: a link, an unknown id, no integer
UrlLinkIds == {FormatInt(i) : i \in LinkIds} \cup {FormatInt(7), <<"x">>}

get_user_by_id(us, user_id) ==
  IF \E u \in us : u.id = user_id
  THEN CHOOSE u \in us : u.id = user_id
  ELSE NoUser

get_user_by_email(us, email) ==
  IF \E u \in us : u.email = email
  THEN CHOOSE u \in us : u.email = email
  ELSE NoUser

NextUserId(us) == 1 + (CHOOSE m \in {u.id : u \in us} : \A u \in us : u.id <= m)

\* the user with that email, created when absent
get_or_create_user(us, email, organization) ==
  IF get_user_by_email(us, email) # NoUser
  THEN get_user_by_email(us, email)
  ELSE User(NextUserId(us), email, organization)

is_user_admin(ad, user) == user.email \in ad

\* models.ShortLink.get_by_id: [exc, link]; a key that is no integer makes
\* the store raise, an unknown id gives None
ShortLink_get_by_id(ls, key) ==
  IF ~IsIntLiteral(key) THEN [exc |-> "DataError", link |-> NoLink]
  ELSE IF ParseInt(key) \in DOMAIN ls
       THEN [exc |-> "", link |-> ls[ParseInt(key)]]
       ELSE [exc |-> "", link |-> NoLink]

----------------------------------------------------------------------------
(* check_mutate_authorization(link_id, user_id=None) *)
(* result: [exc, link]; link = NoLink is the falsy result False            *)

\* a variant that forgets the organization of the admin
MutCheckAnyAdmin(ls, us, ad, link_id, user_id, current_user) ==
  LET user == IF user_id # 0 THEN get_user_by_id(us, user_id) ELSE current_user
      found == ShortLink_get_by_id(ls, link_id)
  IN  IF found.exc # "" THEN [exc |-> "", link |-> NoLink]
      ELSE IF found.link = NoLink THEN [exc |-> "", link |-> NoLink]
      ELSE IF user = NoUser THEN [exc |-> "AttributeError", link |-> NoLink]
      ELSE IF /\ found.link.owner # user.email
              /\ ~ is_user_admin(ad, user)
           THEN [exc |-> "", link |-> NoLink]
           ELSE [exc |-> "", link |-> found.link]

check_mutate_authorization(ls, us, ad, link_id, user_id, current_user) ==
  LET user == IF user_id # 0 THEN get_user_by_id(us, user_id) ELSE current_user
      found == ShortLink_get_by_id(ls, link_id)
  IN  IF found.exc # "" THEN [exc |-> "", link |-> NoLink]
      ELSE IF found.link = NoLink THEN [exc |-> "", link |-> NoLink]
      \* user is None: user.email raises
      ELSE IF user = NoUser THEN [exc |-> "AttributeError", link |-> NoLink]
      ELSE IF /\ found.link.owner # user.email
              /\ ~ (/\ user.organization = found.link.organization
                    /\ is_user_admin(ad, user))
           THEN [exc |-> "", link |-> NoLink]
           ELSE [exc |-> "", link |-> found.link]

----------------------------------------------------------------------------
(* Token codec: jwt.encode / jwt.decode (HS256) under base64url with the   *)
(* '=' padding stripped.  A byte string is [kind, len, payload, sig]; a    *)
(* character string is [data, chars, pad]: the first `chars` characters of *)
(* the base64url text of `data`, followed by `pad` characters '='.         *)

NoPayload == [tp |-> ""]

NoSig == [key |-> "", over |-> NoPayload]

\* HMAC of the claim set under a key
Sign(payload, key) == [key |-> key, over |-> payload]

DigitsOf(payload, k) ==
  IF k \in DOMAIN payload THEN Len(FormatInt(payload[k])) ELSE 0

JsonLen(payload) ==
  JsonFixedChars
  + (IF "sub" \in DOMAIN payload THEN Len(payload.sub) - 1 ELSE 0)
  + DigitsOf(payload, "o") + DigitsOf(payload, "by")

\* characters of the unpadded base64url text of n bytes
B64DataChars(n) == (4 * n + 2) \div 3

\* '=' characters base64 appends to the text of n bytes
B64PadChars(n) == (3 - (n % 3)) % 3

JwtLen(payload) ==
  JwtHeaderChars + 1 + B64DataChars(JsonLen(payload)) + 1 + JwtSignatureChars

\* jwt.encode(payload, key, algorithm='HS256')
jwt_encode(payload, key) ==
  [kind |-> "jwt", len |-> JwtLen(payload), payload |-> payload,
   sig |-> Sign(payload, key)]

JunkBytes(n) == [kind |-> "junk", len |-> n, payload |-> NoPayload, sig |-> NoSig]

\* base64.urlsafe_b64encode
urlsafe_b64encode(bytes) ==
  [data |-> bytes, chars |-> B64DataChars(bytes.len), pad |-> B64PadChars(bytes.len)]

\* str.strip('=')
StripPadding(str) == [str EXCEPT !.pad = 0]

StrLen(str) == str.chars + str.pad

\* a variant that adds nothing
PadTokenForgotten(str) == str

\* transfer_link_token + '=' * (4 - len(transfer_link_token) % 4)
PadToken(str) == [str EXCEPT !.pad = str.pad + (4 - (StrLen(str) % 4))]

\* a variant that takes no more padding than the data needs
urlsafe_b64decode_strict(str) ==
  LET n == str.chars
      nbytes == (3 * n) \div 4
  IN  IF n % 4 = 1 \/ str.pad # (4 - (n % 4)) % 4
      THEN [exc |-> "binascii.Error", bytes |-> JunkBytes(0)]
      ELSE IF n = B64DataChars(str.data.len)
           THEN [exc |-> "", bytes |-> str.data]
           ELSE [exc |-> "", bytes |-> JunkBytes(nbytes)]

\* base64.urlsafe_b64decode: [exc, bytes].  Excess '=' is ignored; a data
\* length of 1 mod 4, or too little padding, raises binascii.Error.
urlsafe_b64decode(str) ==
  LET n == str.chars
      nbytes == (3 * n) \div 4
  IN  IF n % 4 = 1 \/ str.pad < (4 - (n % 4)) % 4
      THEN [exc |-> "binascii.Error", bytes |-> JunkBytes(0)]
      ELSE IF n = B64DataChars(str.data.len)
           THEN [exc |-> "", bytes |-> str.data]
           ELSE [exc |-> "", bytes |-> JunkBytes(nbytes)]

\* a variant that does not validate exp
jwt_decode_no_expiry(bytes, key, t) ==
  IF bytes.kind # "jwt"
  THEN [exc |-> "DecodeError", payload |-> NoPayload]
  ELSE IF bytes.sig # Sign(bytes.payload, key)
  THEN [exc |-> "InvalidSignatureError", payload |-> NoPayload]
  ELSE [exc |-> "", payload |-> bytes.payload]

\* a variant that does not verify the signature
jwt_decode_no_signature(bytes, key, t) ==
  IF bytes.kind # "jwt"
  THEN [exc |-> "DecodeError", payload |-> NoPayload]
  ELSE IF "exp" \in DOMAIN bytes.payload /\ bytes.payload.exp < t
  THEN [exc |-> "ExpiredSignatureError", payload |-> NoPayload]
  ELSE [exc |-> "", payload |-> bytes.payload]

\* jwt.decode(token, key, 'HS256'): [exc, payload].  The signature is
\* verified before the claims are validated.
jwt_decode(bytes, key, t) ==
  IF bytes.kind # "jwt"
  THEN [exc |-> "DecodeError", payload |-> NoPayload]
  ELSE IF bytes.sig # Sign(bytes.payload, key)
  THEN [exc |-> "InvalidSignatureError", payload |-> NoPayload]
  ELSE IF "exp" \in DOMAIN bytes.payload /\ bytes.payload.exp < t
  THEN [exc |-> "ExpiredSignatureError", payload |-> NoPayload]
  ELSE [exc |-> "", payload |-> bytes.payload]

\* the URL path segment made from a claim set (create_transfer_link)
EncodeToken(payload, key) == StripPadding(urlsafe_b64encode(jwt_encode(payload, key)))

\* a string that is no base64url text of a JWT
JunkToken(n) == [data |-> JunkBytes((3 * n) \div 4), chars |-> n, pad |-> 0]

NoToken == [data |-> JunkBytes(0), chars |-> 0, pad |-> 0]

----------------------------------------------------------------------------
(* use_transfer_link(transfer_link_token), step by step.  Every step gives *)
(* [exc, reason, msg, ...]: exc = "" when the step passes, the exception   *)
(* it raises otherwise; reason names the rejection; msg is the             *)
(* user_facing_error it set ("" when it set none).                         *)

UNIFORM_MESSAGE == "Your transfer link is no longer valid"
EXPIRED_MESSAGE == "Your transfer link has expired"
OWNER_CHANGED_MESSAGE ==
  "The owner of go/<shortpath> has changed since your transfer link was created"
ISSUER_MESSAGE ==
  "The user who created your transfer link no longer has edit rights for go/<shortpath>"

\* a variant whose except clause does not tell the expired token apart
DecodeStepExpiredAsInvalid(tok, t) ==
  LET raw == urlsafe_b64decode(PadToken(tok))
      dec == jwt_decode(raw.bytes, SECRET, t)
  IN  IF raw.exc # ""
      THEN [exc |-> raw.exc, reason |-> "Unhandled", msg |-> "", payload |-> NoPayload]
      ELSE IF dec.exc # ""
      THEN [exc |-> dec.exc, reason |-> "TokenMalformed", msg |-> "",
            payload |-> NoPayload]
      ELSE [exc |-> "", reason |-> "", msg |-> "", payload |-> dec.payload]

\* lines 179-195: re-pad, base64-decode, verify signature and expiry
DecodeStep(tok, t) ==
  LET raw == urlsafe_b64decode(PadToken(tok))
      dec == jwt_decode(raw.bytes, SECRET, t)
  IN  IF raw.exc # ""
      THEN [exc |-> raw.exc, reason |-> "Unhandled", msg |-> "", payload |-> NoPayload]
      ELSE IF dec.exc = "ExpiredSignatureError"
      THEN [exc |-> dec.exc, reason |-> "TokenExpired", msg |-> EXPIRED_MESSAGE,
            payload |-> NoPayload]
      ELSE IF dec.exc # ""
      THEN [exc |-> dec.exc, reason |-> "TokenMalformed", msg |-> "",
            payload |-> NoPayload]
      ELSE [exc |-> "", reason |-> "", msg |-> "", payload |-> dec.payload]

\* lines 198-207: subject, permission, link lookup
LinkStep(payload, ls) ==
  LET fail(e, r) == [exc |-> e, reason |-> r, msg |-> "", link_id |-> 0, link |-> NoLink]
  IN  IF "sub" \notin DOMAIN payload THEN fail("KeyError", "TokenSubjectInvalid")
      ELSE IF ~(Len(payload.sub) > 0 /\ Head(payload.sub) = "link:")
      THEN fail("InvalidTransferToken", "TokenSubjectInvalid")
      ELSE IF "tp" \notin DOMAIN payload THEN fail("KeyError", "TokenSubjectInvalid")
      ELSE IF "transfer" # payload.tp
      THEN fail("InvalidTransferToken", "TokenSubjectInvalid")
      ELSE IF ~IsIntLiteral(Tail(payload.sub)) THEN fail("ValueError", "Unhandled")
      ELSE LET link_id == ParseInt(Tail(payload.sub))
               found == ShortLink_get_by_id(ls, FormatInt(link_id))
           IN  IF found.link = NoLink
               THEN fail("InvalidTransferToken", "LinkNotFound")
               ELSE [exc |-> "", reason |-> "", msg |-> "", link_id |-> link_id,
                     link |-> found.link]

\* a variant that only looks the snapshot owner up
OwnerStepExistsOnly(payload, link, us) ==
  IF "o" \notin DOMAIN payload
  THEN [exc |-> "KeyError", reason |-> "TokenSubjectInvalid", msg |-> ""]
  ELSE LET owner_from_token == get_user_by_id(us, payload.o)
       IN  IF owner_from_token = NoUser
           THEN [exc |-> "InvalidTransferToken", reason |-> "OwnerChanged",
                 msg |-> OWNER_CHANGED_MESSAGE]
           ELSE [exc |-> "", reason |-> "", msg |-> ""]

\* lines 209-213: the snapshot owner is still the owner
OwnerStep(payload, link, us) ==
  IF "o" \notin DOMAIN payload
  THEN [exc |-> "KeyError", reason |-> "TokenSubjectInvalid", msg |-> ""]
  ELSE LET owner_from_token == get_user_by_id(us, payload.o)
       IN  IF owner_from_token = NoUser \/ link.owner # owner_from_token.email
           THEN [exc |-> "InvalidTransferToken", reason |-> "OwnerChanged",
                 msg |-> OWNER_CHANGED_MESSAGE]
           ELSE [exc |-> "", reason |-> "", msg |-> ""]

\* a variant that authorizes the redeemer in place of the issuer
IssuerStepChecksRedeemer(payload, link_id, link, current_user, ls, us, ad) ==
  IF "by" \notin DOMAIN payload
  THEN [exc |-> "KeyError", reason |-> "TokenSubjectInvalid", msg |-> ""]
  ELSE LET auth == check_mutate_authorization(ls, us, ad, FormatInt(link_id),
                                              0, current_user)
       IN  IF auth.exc # ""
           THEN [exc |-> auth.exc, reason |-> "Unhandled", msg |-> ""]
           ELSE IF auth.link = NoLink
           THEN [exc |-> "InvalidTransferToken", reason |-> "IssuerUnauthorized",
                 msg |-> ISSUER_MESSAGE]
           ELSE IF current_user.organization # link.organization
           THEN [exc |-> "InvalidTransferToken", reason |-> "CrossOrganization",
                 msg |-> ""]
           ELSE [exc |-> "", reason |-> "", msg |-> ""]

\* a variant without the organization check of line 220
IssuerStepNoOrgCheck(payload, link_id, link, current_user, ls, us, ad) ==
  IF "by" \notin DOMAIN payload
  THEN [exc |-> "KeyError", reason |-> "TokenSubjectInvalid", msg |-> ""]
  ELSE LET auth == check_mutate_authorization(ls, us, ad, FormatInt(link_id),
                                              payload.by, current_user)
       IN  IF auth.exc # ""
           THEN [exc |-> auth.exc, reason |-> "Unhandled", msg |-> ""]
           ELSE IF auth.link = NoLink
           THEN [exc |-> "InvalidTransferToken", reason |-> "IssuerUnauthorized",
                 msg |-> ISSUER_MESSAGE]
           ELSE [exc |-> "", reason |-> "", msg |-> ""]

\* a variant that sets user_facing_error ahead of the issuer check, so
\* that the organization check inherits it
IssuerStepMessageSetEarly(payload, link_id, link, current_user, ls, us, ad) ==
  IF "by" \notin DOMAIN payload
  THEN [exc |-> "KeyError", reason |-> "TokenSubjectInvalid", msg |-> ISSUER_MESSAGE]
  ELSE LET auth == check_mutate_authorization(ls, us, ad, FormatInt(link_id),
                                              payload.by, current_user)
       IN  IF auth.exc # ""
           THEN [exc |-> auth.exc, reason |-> "Unhandled", msg |-> ""]
           ELSE IF auth.link = NoLink
           THEN [exc |-> "InvalidTransferToken", reason |-> "IssuerUnauthorized",
                 msg |-> ISSUER_MESSAGE]
           ELSE IF current_user.organization # link.organization
           THEN [exc |-> "InvalidTransferToken", reason |-> "CrossOrganization",
                 msg |-> ISSUER_MESSAGE]
           ELSE [exc |-> "", reason |-> "", msg |-> ""]

\* lines 215-221: the issuer may still mutate; the redeemer is of the
\* link's organization
IssuerStep(payload, link_id, link, current_user, ls, us, ad) ==
  IF "by" \notin DOMAIN payload
  THEN [exc |-> "KeyError", reason |-> "TokenSubjectInvalid", msg |-> ""]
  ELSE LET auth == check_mutate_authorization(ls, us, ad, FormatInt(link_id),
                                              payload.by, current_user)
       IN  IF auth.exc # ""
           THEN [exc |-> auth.exc, reason |-> "Unhandled", msg |-> ""]
           ELSE IF auth.link = NoLink
           THEN [exc |-> "InvalidTransferToken", reason |-> "IssuerUnauthorized",
                 msg |-> ISSUER_MESSAGE]
           ELSE IF current_user.organization # link.organization
           THEN [exc |-> "InvalidTransferToken", reason |-> "CrossOrganization",
                 msg |-> ""]
           ELSE [exc |-> "", reason |-> "", msg |-> ""]

\* the exceptions the handler catches (lines 185-187, 222-223)
CaughtExceptions ==
  {"ExpiredSignatureError", "InvalidSignatureError", "DecodeError",
   "InvalidTransferToken", "KeyError"}

\* what a raising step makes of the request: abort(403, ...) when the
\* exception is caught, an unhandled exception (500) otherwise
Aborted(step) ==
  IF step.exc \in CaughtExceptions
  THEN [status |-> 403, reason |-> step.reason,
        message |-> IF step.msg # "" THEN step.msg ELSE UNIFORM_MESSAGE]
  ELSE [status |-> 500, reason |-> step.exc, message |-> ""]

\* lines 229-232
AcceptedResult == [status |-> 201, reason |-> "Accepted", message |-> ""]

\* a variant whose put() also blanks the destination
TransferOwnerBlankDestination(ls, link, current_user) ==
  [ls EXCEPT ![link.id] = [link EXCEPT !.owner = current_user.email,
                                        !.destination_url = ""]]

\* a variant that writes only when the stored owner is the one it read
TransferOwnerCompareAndSet(ls, link, current_user) ==
  IF link.id \in DOMAIN ls /\ ls[link.id].owner = link.owner
  THEN [ls EXCEPT ![link.id] = [link EXCEPT !.owner = current_user.email]]
  ELSE ls

\* link.owner = current_user.email; link.put()
TransferOwner(ls, link, current_user) ==
  [ls EXCEPT ![link.id] = [link EXCEPT !.owner = current_user.email]]

\* the whole handler, run without interruption against one state of the
\* store: [status, reason, message, stage, link]; stage names the step
\* that ended the request
use_transfer_link(tok, current_user, ls, us, ad, t) ==
  LET d == DecodeStep(tok, t)
      l == LinkStep(d.payload, ls)
      o == OwnerStep(d.payload, l.link, us)
      i == IssuerStep(d.payload, l.link_id, l.link, current_user, ls, us, ad)
      end(r, stage, link) ==
        [status |-> r.status, reason |-> r.reason, message |-> r.message,
         stage |-> stage, link |-> link]
  IN  IF d.exc # "" THEN end(Aborted(d), "decode", NoLink)
      ELSE IF l.exc # "" THEN end(Aborted(l), "link", NoLink)
      ELSE IF o.exc # "" THEN end(Aborted(o), "owner", l.link)
      ELSE IF i.exc # "" THEN end(Aborted(i), "issuer", l.link)
      ELSE end(AcceptedResult, "write", l.link)

----------------------------------------------------------------------------
(* Tokens a client may present *)

\* the signature bytes of a token altered
Tamper(tok) == [tok EXCEPT !.data.sig.key = "altered"]

SubOf(chars) == <<"link:">> \o chars

\* claim sets signed by another holder of the secret: the handler guards
\* against each of them (lines 198-221)
ForeignClaims ==
  LET good == [exp |-> MaxTime + TOKEN_DURATION_IN_HOURS, sub |-> SubOf(FormatInt(42)),
               tp |-> "transfer", o |-> Alice.id, by |-> Alice.id]
  IN  { [good EXCEPT !.sub = <<"user:">> \o FormatInt(42)],
        [good EXCEPT !.tp = "edit"],
        [good EXCEPT !.sub = SubOf(<<"x">>)],
        [good EXCEPT !.sub = SubOf(FormatInt(7))],
        [good EXCEPT !.o = 99],
        [good EXCEPT !.by = 99],
        [good EXCEPT !.by = 99, !.o = 99],
        [exp |-> good.exp, sub |-> good.sub, o |-> good.o, by |-> good.by] }

ForeignTokens ==
  {EncodeToken(p, SECRET) : p \in ForeignClaims}
  \cup {EncodeToken(p, "other_secret") : p \in {q \in ForeignClaims : q.o = 99}}

JunkTokens == {JunkToken(n) : n \in 1..MaxJunkLen}

PresentableTokens(iss) ==
  iss \cup {Tamper(t) : t \in iss} \cup ForeignTokens \cup JunkTokens

----------------------------------------------------------------------------
(* State *)

\* a redemption request in flight: its position in use_transfer_link and
\* its local variables; raced tells that another request with the same
\* token wrote the owner after this one had passed every check
\* a string on its way through the codec: the bytes that were encoded, the
\* string that travels in the URL, what decoding made of it
NoWire == [pc |-> "none", claims |-> NoPayload, bytes |-> JunkBytes(0),
           encoded |-> NoToken,
           sent |-> NoToken, padded |-> NoToken, exc |-> "",
           decoded |-> JunkBytes(0), payload |-> NoPayload]

Idle == [pc |-> "idle", tok |-> NoToken, user |-> NoUser, payload |-> NoPayload,
         link_id |-> 0, link |-> NoLink, status |-> 0, reason |-> "",
         message |-> "", raced |-> FALSE]

Reqs == {1, 2}

\* the response of a handler: what it answered, to whom, about which
\* request, and the links as they were when the request arrived; replay
\* tells that the token presented had been accepted before
Result(op, user, link_id, tok, r, replay, before) ==
  [op |-> op, user |-> user, link_id |-> link_id, tok |-> tok,
   status |-> r.status, reason |-> r.reason, message |-> r.message,
   stage |-> r.stage, replay |-> replay, before |-> before]

Plain(status, reason) ==
  [status |-> status, reason |-> reason, message |-> "", stage |-> ""]

\* no response is on its way to a client
NoResult == Result("none", NoUser, <<>>, NoToken, Plain(0, ""), FALSE, <<>>)

Ready == last = NoResult

Init ==
  /\ \E e \in InitialOwners : links = [i \in LinkIds |-> Link(i, e)]
  /\ users = InitialUsers
  /\ admins = {Dave.email, Eve.email}
  /\ now = 0
  /\ issued = {}
  /\ accepted = {}
  /\ last = NoResult
  /\ req = [r \in Reqs |-> Idle]
  /\ refused = {}
  /\ wire = NoWire

----------------------------------------------------------------------------
(* Handlers *)

\* a variant that creates a user record for the owner on every issuance
CreateTransferLinkAlwaysCreatesOwner(current_user, link_id) ==
  LET auth == check_mutate_authorization(links, users, admins, link_id, 0, current_user)
      owner == User(NextUserId(users), auth.link.owner, auth.link.organization)
      payload == [exp |-> now + TOKEN_DURATION_IN_HOURS,
                  sub |-> SubOf(link_id),
                  tp |-> "transfer",
                  o |-> owner.id,
                  by |-> current_user.id]
      token == EncodeToken(payload, SECRET)
  IN  /\ Ready
      /\ IF auth.link = NoLink
         THEN /\ last' = Result("issue", current_user, link_id, NoToken,
                                Plain(403, "Unauthorized"), FALSE, links)
              /\ UNCHANGED <<links, users, admins, now, issued, accepted, req, refused, wire>>
         ELSE /\ Cardinality(issued \cup {token}) <= MaxIssued
              /\ users' = users \cup {owner}
              /\ issued' = issued \cup {token}
              /\ last' = Result("issue", current_user, link_id, token,
                                Plain(201, "Issued"), FALSE, links)
              /\ UNCHANGED <<links, admins, now, accepted, req, refused, wire>>

\* a variant that names the acting user as the owner of the link
CreateTransferLinkOwnerIsIssuer(current_user, link_id) ==
  LET auth == check_mutate_authorization(links, users, admins, link_id, 0, current_user)
      owner == get_or_create_user(users, auth.link.owner, auth.link.organization)
      payload == [exp |-> now + TOKEN_DURATION_IN_HOURS,
                  sub |-> SubOf(link_id),
                  tp |-> "transfer",
                  o |-> current_user.id,
                  by |-> current_user.id]
      token == EncodeToken(payload, SECRET)
  IN  /\ Ready
      /\ IF auth.link = NoLink
         THEN /\ last' = Result("issue", current_user, link_id, NoToken,
                                Plain(403, "Unauthorized"), FALSE, links)
              /\ UNCHANGED <<links, users, admins, now, issued, accepted, req, refused, wire>>
         ELSE /\ Cardinality(issued \cup {token}) <= MaxIssued
              /\ users' = users \cup {owner}
              /\ issued' = issued \cup {token}
              /\ last' = Result("issue", current_user, link_id, token,
                                Plain(201, "Issued"), FALSE, links)
              /\ UNCHANGED <<links, admins, now, accepted, req, refused, wire>>

\* POST /_/api/links/<link_id>/transfer_link, behind
\* link_mutation_permission_required
CreateTransferLink(current_user, link_id) ==
  LET auth == check_mutate_authorization(links, users, admins, link_id, 0, current_user)
      owner == get_or_create_user(users, auth.link.owner, auth.link.organization)
      payload == [exp |-> now + TOKEN_DURATION_IN_HOURS,
                  sub |-> SubOf(link_id),
                  tp |-> "transfer",
                  o |-> owner.id,
                  by |-> current_user.id]
      token == EncodeToken(payload, SECRET)
  IN  /\ Ready
      /\ IF auth.link = NoLink
         THEN /\ last' = Result("issue", current_user, link_id, NoToken,
                                Plain(403, "Unauthorized"), FALSE, links)
              /\ UNCHANGED <<links, users, admins, now, issued, accepted, req, refused, wire>>
         ELSE /\ Cardinality(issued \cup {token}) <= MaxIssued
              /\ users' = users \cup {owner}
              /\ issued' = issued \cup {token}
              /\ last' = Result("issue", current_user, link_id, token,
                                Plain(201, "Issued"), FALSE, links)
              /\ UNCHANGED <<links, admins, now, accepted, req, refused, wire>>

\* a variant that writes the owner before it checks the organization
UseTransferLinkWritesBeforeOrgCheck(current_user, tok) ==
  LET r == use_transfer_link(tok, current_user, links, users, admins, now)
  IN  /\ Ready
      /\ links' = IF r.status = 201 \/ r.reason = "CrossOrganization"
                  THEN TransferOwner(links, r.link, current_user)
                  ELSE links
      /\ accepted' = IF r.status = 201 THEN accepted \cup {tok} ELSE accepted
      /\ last' = Result("redeem", current_user, <<>>, tok, r, tok \in accepted, links)
      /\ UNCHANGED <<users, admins, now, issued, req, refused, wire>>

\* POST /_/api/transfer_link/<transfer_link_token>
UseTransferLink(current_user, tok) ==
  LET r == use_transfer_link(tok, current_user, links, users, admins, now)
  IN  /\ Ready
      /\ links' = IF r.status = 201 THEN TransferOwner(links, r.link, current_user)
                  ELSE links
      /\ accepted' = IF r.status = 201 THEN accepted \cup {tok} ELSE accepted
      /\ last' = Result("redeem", current_user, <<>>, tok, r, tok \in accepted, links)
      /\ UNCHANGED <<users, admins, now, issued, req, refused, wire>>

\* DELETE /_/api/links/<link_id>, behind link_mutation_permission_required
DeleteLink(current_user, link_id) ==
  LET auth == check_mutate_authorization(links, users, admins, link_id, 0, current_user)
  IN  /\ Ready
      /\ IF auth.link = NoLink
         THEN /\ last' = Result("delete", current_user, link_id, NoToken,
                                Plain(403, "Unauthorized"), FALSE, links)
              /\ UNCHANGED <<links, users, admins, now, issued, accepted, req, refused, wire>>
         ELSE /\ links' = [i \in DOMAIN links \ {auth.link.id} |-> links[i]]
              /\ last' = Result("delete", current_user, link_id, NoToken,
                                Plain(200, "Deleted"), FALSE, links)
              /\ UNCHANGED <<users, admins, now, issued, accepted, req, refused, wire>>

\* the response of the last handler reaches its client
Respond ==
  /\ ~Ready
  /\ last' = NoResult
  /\ UNCHANGED <<links, users, admins, now, issued, accepted, req, refused, wire>>

----------------------------------------------------------------------------
(* Environment *)

\* time passes
Tick ==
  /\ Ready
  /\ now + TickHours <= MaxTime
  /\ now' = now + TickHours
  /\ UNCHANGED <<links, users, admins, issued, accepted, last, req, refused, wire>>

\* the organization's admins list is edited
SetAdmins(email) ==
  /\ Ready
  /\ admins' = IF email \in admins THEN admins \ {email} ELSE admins \cup {email}
  /\ UNCHANGED <<links, users, now, issued, accepted, last, req, refused, wire>>

\* one request at a time: a handler runs to its response before the next
\* request arrives
Next ==
  \/ Ready /\ \E u \in users, id \in UrlLinkIds : CreateTransferLink(u, id)
  \/ Ready /\ \E u \in users, tok \in PresentableTokens(issued) : UseTransferLink(u, tok)
  \/ Ready /\ \E u \in users, id \in UrlLinkIds : DeleteLink(u, id)
  \/ Respond
  \/ Tick
  \/ \E e \in {Dave.email, Eve.email} : SetAdmins(e)

Spec == Init /\ [][Next]_vars

----------------------------------------------------------------------------
(* use_transfer_link as concurrent requests: each round trip to the store  *)
(* is a step of its own, and the steps of two requests interleave          *)

Finish(r, step) ==
  LET a == Aborted(step)
  IN  [req[r] EXCEPT !.pc = "done", !.status = a.status, !.reason = a.reason,
                     !.message = a.message]

\* lines 179-195
RBegin(r, current_user, tok) ==
  LET d == DecodeStep(tok, now)
      started == [Idle EXCEPT !.tok = tok, !.user = current_user]
  IN  /\ req[r].pc = "idle"
      /\ \A q \in Reqs : q < r => req[q].pc # "idle"
      /\ req' = [req EXCEPT ![r] =
                   IF d.exc # ""
                   THEN [started EXCEPT !.pc = "done", !.status = Aborted(d).status,
                                        !.reason = Aborted(d).reason,
                                        !.message = Aborted(d).message]
                   ELSE [started EXCEPT !.pc = "decoded", !.payload = d.payload]]
      /\ UNCHANGED <<links, users, admins, now, issued, accepted, last, refused, wire>>

\* lines 198-207
RLink(r) ==
  LET l == LinkStep(req[r].payload, links)
  IN  /\ req[r].pc = "decoded"
      /\ req' = [req EXCEPT ![r] =
                   IF l.exc # "" THEN Finish(r, l)
                   ELSE [req[r] EXCEPT !.pc = "linked", !.link_id = l.link_id,
                                       !.link = l.link]]
      /\ UNCHANGED <<links, users, admins, now, issued, accepted, last, refused, wire>>

\* lines 209-213
ROwner(r) ==
  LET o == OwnerStep(req[r].payload, req[r].link, users)
  IN  /\ req[r].pc = "linked"
      /\ req' = [req EXCEPT ![r] =
                   IF o.exc # "" THEN Finish(r, o)
                   ELSE [req[r] EXCEPT !.pc = "owner_ok"]]
      /\ UNCHANGED <<links, users, admins, now, issued, accepted, last, refused, wire>>

\* lines 215-227
RIssuer(r) ==
  LET i == IssuerStep(req[r].payload, req[r].link_id, req[r].link, req[r].user,
                      links, users, admins)
  IN  /\ req[r].pc = "owner_ok"
      /\ req' = [req EXCEPT ![r] =
                   IF i.exc # "" THEN Finish(r, i)
                   ELSE [req[r] EXCEPT !.pc = "checked"]]
      /\ UNCHANGED <<links, users, admins, now, issued, accepted, last, refused, wire>>

\* lines 229-232
RWrite(r) ==
  /\ req[r].pc = "checked"
  /\ links' = TransferOwner(links, req[r].link, req[r].user)
  /\ accepted' = accepted \cup {req[r].tok}
  /\ req' = [q \in Reqs |->
               IF q = r
               THEN [req[q] EXCEPT !.pc = "done", !.status = AcceptedResult.status,
                                   !.reason = AcceptedResult.reason]
               ELSE IF /\ req[q].pc = "checked"
                       /\ req[q].tok = req[r].tok
                       /\ req[q].user # req[r].user
                    THEN [req[q] EXCEPT !.raced = TRUE]
                    ELSE req[q]]
  /\ UNCHANGED <<users, admins, now, issued, last, refused, wire>>

NextRace ==
  \/ Ready /\ \E u \in users, id \in UrlLinkIds : CreateTransferLink(u, id)
  \/ Respond
  \/ \E r \in Reqs, u \in users, tok \in issued : RBegin(r, u, tok)
  \/ \E r \in Reqs : RLink(r)
  \/ \E r \in Reqs : ROwner(r)
  \/ \E r \in Reqs : RIssuer(r)
  \/ \E r \in Reqs : RWrite(r)

SpecRace == Init /\ [][NextRace]_vars

----------------------------------------------------------------------------
(* Redemptions with their history: refused keeps the tokens that were      *)
(* rejected with OwnerChanged, as accepted keeps those that were accepted  *)

\* a variant that remembers the tokens it has accepted and takes none twice
RedeemRecordedSingleUse(current_user, tok) ==
  LET r == use_transfer_link(tok, current_user, links, users, admins, now)
      used == [r EXCEPT !.status = 403, !.reason = "OwnerChanged",
                        !.message = OWNER_CHANGED_MESSAGE, !.stage = "owner"]
      a == IF tok \in accepted /\ r.status = 201 THEN used ELSE r
  IN  /\ Ready
      /\ links' = IF a.status = 201 THEN TransferOwner(links, a.link, current_user)
                  ELSE links
      /\ accepted' = IF a.status = 201 THEN accepted \cup {tok} ELSE accepted
      /\ refused' = IF a.reason = "OwnerChanged" THEN refused \cup {tok} ELSE refused
      /\ last' = Result("redeem", current_user, <<>>, tok, a, tok \in accepted, links)
      /\ UNCHANGED <<users, admins, now, issued, req, wire>>

\* POST /_/api/transfer_link/<transfer_link_token>
RedeemRecorded(current_user, tok) ==
  LET r == use_transfer_link(tok, current_user, links, users, admins, now)
  IN  /\ Ready
      /\ links' = IF r.status = 201 THEN TransferOwner(links, r.link, current_user)
                  ELSE links
      /\ accepted' = IF r.status = 201 THEN accepted \cup {tok} ELSE accepted
      /\ refused' = IF r.reason = "OwnerChanged" THEN refused \cup {tok} ELSE refused
      /\ last' = Result("redeem", current_user, <<>>, tok, r, tok \in accepted, links)
      /\ UNCHANGED <<users, admins, now, issued, req, wire>>

NextHistory ==
  \/ Ready /\ \E u \in users, id \in UrlLinkIds : CreateTransferLink(u, id)
  \/ Ready /\ \E u \in users, tok \in issued : RedeemRecorded(u, tok)
  \/ Respond
  \/ Tick
  \/ SetAdmins(Dave.email)

SpecHistory == Init /\ [][NextHistory]_vars

----------------------------------------------------------------------------
(* The codec on its own: a claim set is signed, encoded and stripped by    *)
(* create_transfer_link (lines 163-165), then padded, decoded and verified *)
(* by use_transfer_link (lines 180-184)                                    *)

\* claim sets whose tokens have every length class a token can have
CodecClaims ==
  {[exp |-> e, sub |-> SubOf(FormatInt(l)), tp |-> "transfer", o |-> o, by |-> b] :
     e \in {TOKEN_DURATION_IN_HOURS, MaxTime + TOKEN_DURATION_IN_HOURS},
     l \in {7, 42, 123}, o \in {Alice.id, 12}, b \in {Alice.id, Dave.id}}

InitCodec ==
  /\ \E e \in InitialOwners : links = [i \in LinkIds |-> Link(i, e)]
  /\ users = InitialUsers
  /\ admins = {Dave.email, Eve.email}
  /\ now = 0
  /\ issued = {}
  /\ accepted = {}
  /\ last = NoResult
  /\ req = [r \in Reqs |-> Idle]
  /\ refused = {}
  /\ \E c \in CodecClaims : wire = [NoWire EXCEPT !.pc = "claims", !.claims = c]

\* line 163: jwt.encode
WSign ==
  /\ wire.pc = "claims"
  /\ wire' = [wire EXCEPT !.pc = "signed", !.bytes = jwt_encode(wire.claims, SECRET)]
  /\ UNCHANGED <<links, users, admins, now, issued, accepted, last, req, refused>>

\* line 165: base64.urlsafe_b64encode(token).decode('utf-8').strip('=')
WEncode ==
  /\ wire.pc = "signed"
  /\ wire' = [wire EXCEPT !.pc = "sent",
                          !.encoded = urlsafe_b64encode(wire.bytes),
                          !.sent = StripPadding(urlsafe_b64encode(wire.bytes))]
  /\ UNCHANGED <<links, users, admins, now, issued, accepted, last, req, refused>>

\* line 180: padded_token
WPad ==
  /\ wire.pc = "sent"
  /\ wire' = [wire EXCEPT !.pc = "padded", !.padded = PadToken(wire.sent)]
  /\ UNCHANGED <<links, users, admins, now, issued, accepted, last, req, refused>>

\* line 182: base64.urlsafe_b64decode(padded_token)
WDecode ==
  LET raw == urlsafe_b64decode(wire.padded)
  IN  /\ wire.pc = "padded"
      /\ wire' = [wire EXCEPT !.pc = IF raw.exc # "" THEN "done" ELSE "bytes",
                              !.exc = raw.exc, !.decoded = raw.bytes]
      /\ UNCHANGED <<links, users, admins, now, issued, accepted, last, req, refused>>

\* lines 182-184: jwt.decode(..., sessions_secret, 'HS256')
WVerify ==
  LET dec == jwt_decode(wire.decoded, SECRET, now)
  IN  /\ wire.pc = "bytes"
      /\ wire' = [wire EXCEPT !.pc = "done", !.exc = dec.exc, !.payload = dec.payload]
      /\ UNCHANGED <<links, users, admins, now, issued, accepted, last, req, refused>>

NextCodec ==
  \/ WSign
  \/ WEncode
  \/ WPad
  \/ WDecode
  \/ WVerify
  \/ Tick

SpecCodec == InitCodec /\ [][NextCodec]_vars

----------------------------------------------------------------------------
(* The words of the specification, stated over a token, a user and a store *)

\* the mutation rule of the specification, section 4.1
MayMutate(link, actor, ad) ==
  \/ actor.email = link.owner
  \/ actor.organization = link.organization /\ actor.email \in ad

\* the link a URL id names in a store, NoLink when it names none
LinkNamed(ls, id) ==
  IF IsIntLiteral(id) /\ ParseInt(id) \in DOMAIN ls THEN ls[ParseInt(id)] ELSE NoLink

\* the string is the stripped base64url text of a JWT
WellFormed(tok) ==
  tok.data.kind = "jwt" /\ tok.pad = 0 /\ tok.chars = B64DataChars(tok.data.len)

SignatureVerifies(tok) == tok.data.sig = [key |-> SECRET, over |-> tok.data.payload]

ClaimsOf(tok) == tok.data.payload

\* check 1: the token decodes, is signed by the server and has not expired
Check1(tok, t) == WellFormed(tok) /\ SignatureVerifies(tok) /\ ClaimsOf(tok).exp >= t

\* check 2: subject prefix and permission
Check2(p) ==
  /\ {"sub", "tp"} \subseteq DOMAIN p
  /\ Len(p.sub) > 0 /\ Head(p.sub) = "link:"
  /\ p.tp = "transfer"

\* the link the subject refers to
LinkOfClaims(p, ls) == LinkNamed(ls, Tail(p.sub))

\* check 3: the link exists
Check3(p, ls) == LinkOfClaims(p, ls) # NoLink

\* check 4: the snapshot owner is the current owner
Check4(p, ls, us) ==
  \E u \in us : u.id = p.o /\ u.email = LinkOfClaims(p, ls).owner

\* check 5: the issuer may still mutate the link
Check5(p, ls, us, ad) ==
  \E u \in us : u.id = p.by /\ MayMutate(LinkOfClaims(p, ls), u, ad)

\* check 6: the redeemer is of the link's organization
Check6(p, ls, user) == user.organization = LinkOfClaims(p, ls).organization

AllSixChecks(tok, user, ls, us, ad, t) ==
  /\ Check1(tok, t)
  /\ Check2(ClaimsOf(tok))
  /\ Check3(ClaimsOf(tok), ls)
  /\ Check4(ClaimsOf(tok), ls, us)
  /\ Check5(ClaimsOf(tok), ls, us, ad)
  /\ Check6(ClaimsOf(tok), ls, user)

Redeemed == last.op = "redeem"

----------------------------------------------------------------------------
(* Claims *)

\* C1: for every link id and every actor, check_mutate_authorization
\* returns the link if and only if the link exists and the actor is its
\* owner or an admin of its organization; in every other combination, a
\* missing link and a raising lookup included, it returns False and does
\* not raise; the handlers behind the decorator answer 403 exactly then.
C1_AuthorizationIff ==
  /\ \A id \in UrlLinkIds, a \in users :
       LET byCurrentUser == check_mutate_authorization(links, users, admins, id, 0, a)
           byUserId == check_mutate_authorization(links, users, admins, id, a.id, NoUser)
           link == LinkNamed(links, id)
       IN  /\ byCurrentUser.exc = ""
           /\ byUserId = byCurrentUser
           /\ IF link # NoLink /\ MayMutate(link, a, admins)
              THEN byCurrentUser.link = link
              ELSE byCurrentUser.link = NoLink
  /\ last.op \in {"issue", "delete"} =>
       LET link == LinkNamed(last.before, last.link_id)
       IN  (last.status # 403) <=> (link # NoLink /\ MayMutate(link, last.user, admins))

\* an admin who is not the owner was granted; so was nobody for an id
\* whose lookup raises
C1_Witness ==
  /\ last.op = "issue" /\ last.status = 201
  /\ last.user.email # LinkNamed(last.before, last.link_id).owner

\* C2: a redemption that passes all six checks ends Accepted, the owner of
\* the link is then the redeeming user's email, and organization, shortpath
\* and destination_url of the link are what they were.
C2_AcceptedSetsOwnerOnly ==
  Redeemed =>
    /\ AllSixChecks(last.tok, last.user, last.before, users, admins, now)
         => last.status = 201
    /\ last.status = 201 =>
         /\ DOMAIN links = DOMAIN last.before
         /\ \A i \in DOMAIN links :
              /\ links[i].owner = last.user.email
              /\ links[i] = [last.before[i] EXCEPT !.owner = last.user.email]

\* bob@co redeemed a token for alice's link
C2_Witness ==
  /\ Redeemed /\ last.status = 201
  /\ AllSixChecks(last.tok, last.user, last.before, users, admins, now)
  /\ \E i \in DOMAIN links : last.before[i].owner # last.user.email

\* C3 as claimed: every attempt with a token that was accepted before is
\* rejected with OwnerChanged.
C3_ReplayAlwaysOwnerChanged ==
  (Redeemed /\ last.replay) => (last.status = 403 /\ last.reason = "OwnerChanged")

\* C3 amended: an attempt with a token that was accepted before, made
\* before the token expires while the link exists and its owner is not the
\* user the token names as owner, is rejected with OwnerChanged; and no
\* attempt is Accepted unless the link's owner is that user.
C3_ReplayRejectedWhileOwnerDiffers ==
  (Redeemed /\ last.replay) =>
    /\ (/\ ClaimsOf(last.tok).exp >= now
        /\ Check3(ClaimsOf(last.tok), last.before)
        /\ ~Check4(ClaimsOf(last.tok), last.before, users))
         => (last.status = 403 /\ last.reason = "OwnerChanged" /\ links = last.before)
    /\ last.status = 201 => Check4(ClaimsOf(last.tok), last.before, users)

\* a second attempt with an accepted token was rejected with OwnerChanged
C3_Witness ==
  /\ Redeemed /\ last.replay
  /\ last.reason = "OwnerChanged"
  /\ last.tok \in issued

\* C4: when two attempts with the same token by two different users have
\* both passed every check before either writes the owner, both end
\* Accepted and the owner of the link is the email of the one that wrote
\* last; nothing rejects the later write.
C4_LastWriterWins ==
  \A r \in Reqs :
    (req[r].raced /\ req[r].pc = "done") =>
      /\ req[r].status = 201
      /\ \A q \in Reqs \ {r} : req[q].pc = "done" /\ req[q].status = 201
      /\ links[req[r].link_id].owner = req[r].user.email

\* two users raced with one token and the later writer owns the link
C4_Witness ==
  \E r \in Reqs, q \in Reqs :
    /\ req[r].raced /\ req[r].pc = "done" /\ req[q].pc = "done"
    /\ req[q].tok = req[r].tok
    /\ req[q].user # req[r].user
    /\ req[q].user.organization = req[r].user.organization
    /\ links[req[r].link_id].owner = req[r].user.email

\* C5 as claimed: whenever the issuer of an issued, unexpired token no
\* longer passes the mutation predicate, redemption is rejected with
\* IssuerUnauthorized and the link is unchanged.
C5_IssuerLostRightsAlwaysNamed ==
  (/\ Redeemed /\ last.tok \in issued
   /\ Check1(last.tok, now)
   /\ ~Check5(ClaimsOf(last.tok), last.before, users, admins))
    => (last.status = 403 /\ last.reason = "IssuerUnauthorized" /\ links = last.before)

\* C5 amended: when the issuer of an issued, unexpired token no longer
\* passes the mutation predicate while the link still exists and its owner
\* is still the user the token names as owner, redemption is rejected with
\* IssuerUnauthorized and the link is unchanged.
C5_IssuerLostRightsOwnerUnchanged ==
  (/\ Redeemed /\ last.tok \in issued
   /\ Check1(last.tok, now)
   /\ Check3(ClaimsOf(last.tok), last.before)
   /\ Check4(ClaimsOf(last.tok), last.before, users)
   /\ ~Check5(ClaimsOf(last.tok), last.before, users, admins))
    => (last.status = 403 /\ last.reason = "IssuerUnauthorized" /\ links = last.before)

\* a token issued by an admin who was then demoted was refused
C5_Witness ==
  /\ Redeemed /\ last.tok \in issued
  /\ Check1(last.tok, now)
  /\ Check4(ClaimsOf(last.tok), last.before, users)
  /\ ~Check5(ClaimsOf(last.tok), last.before, users, admins)
  /\ last.reason = "IssuerUnauthorized"

\* C6: a token is issued with exp = time of issuance + 24 hours, and an
\* attempt to redeem an issued token after its exp ends 403 with the
\* message that the link has expired, the link unchanged.
C6_ExpiresAfter24Hours ==
  /\ (last.op = "issue" /\ last.status = 201)
       => ClaimsOf(last.tok).exp = now + 24
  /\ (Redeemed /\ last.tok \in issued /\ now > ClaimsOf(last.tok).exp)
       => /\ last.status = 403
          /\ last.reason = "TokenExpired"
          /\ last.message = "Your transfer link has expired"
          /\ links = last.before

\* an issued token was presented after its exp
C6_Witness ==
  /\ Redeemed /\ last.tok \in issued
  /\ now > ClaimsOf(last.tok).exp
  /\ last.status = 403

\* C7: a token that is a JWT whose signature does not verify under the
\* server secret ends 403 with the uniform message at the decoding step,
\* before any lookup, whatever its claims; the link is unchanged.
C7_BadSignatureRejected ==
  (Redeemed /\ last.tok.data.kind = "jwt" /\ ~SignatureVerifies(last.tok))
    => /\ last.status = 403
       /\ last.message = "Your transfer link is no longer valid"
       /\ last.stage = "decode"
       /\ links = last.before

\* an issued token with its signature altered was presented while the
\* original would have been accepted
C7_Witness ==
  /\ Redeemed /\ last.status = 403
  /\ \E t \in issued :
       /\ last.tok = Tamper(t)
       /\ AllSixChecks(t, last.user, last.before, users, admins, now)

\* a redeemer of another organization than the link's
CrossOrgRedeemer ==
  /\ Redeemed
  /\ \E i \in DOMAIN last.before : last.user.organization # last.before[i].organization

OrganizationKept ==
  /\ \A i \in DOMAIN links : links[i].organization = Link(i, "").organization
  /\ (Redeemed /\ last.status = 201) =>
       \A i \in DOMAIN links :
         /\ links[i].owner = last.user.email
         /\ last.user \in users
         /\ last.user.organization = links[i].organization

\* C8 as claimed: the organization of a link never changes, every owner a
\* redemption writes is a user of the link's organization, and every
\* rejection of a redeemer of another organization is a rejection with
\* CrossOrganization.
C8_CrossOrgRejectionsAlwaysNamed ==
  /\ OrganizationKept
  /\ CrossOrgRedeemer =>
       /\ last.status # 201
       /\ last.status = 403 => last.reason = "CrossOrganization"

\* C8 amended: the organization of a link never changes, every owner a
\* redemption writes is a user of the link's organization, and a redeemer
\* of another organization is never Accepted; it is rejected with
\* CrossOrganization when checks 1 to 5 pass.
C8_CrossOrgNeverAccepted ==
  /\ OrganizationKept
  /\ CrossOrgRedeemer =>
       /\ last.status # 201
       /\ links = last.before
       /\ (/\ Check1(last.tok, now)
           /\ Check2(ClaimsOf(last.tok))
           /\ Check3(ClaimsOf(last.tok), last.before)
           /\ Check4(ClaimsOf(last.tok), last.before, users)
           /\ Check5(ClaimsOf(last.tok), last.before, users, admins))
            => (last.status = 403 /\ last.reason = "CrossOrganization")

\* eve@other presented a token that passes checks 1 to 5
C8_Witness ==
  /\ CrossOrgRedeemer
  /\ last.tok \in issued
  /\ last.reason = "CrossOrganization"

\* the reason the specification gives: that of the first check to fail
ExpectedReason(tok, user, ls, us, ad, t) ==
  IF ~(WellFormed(tok) /\ SignatureVerifies(tok)) THEN "TokenMalformed"
  ELSE IF ClaimsOf(tok).exp < t THEN "TokenExpired"
  ELSE IF ~Check2(ClaimsOf(tok)) THEN "TokenSubjectInvalid"
  ELSE IF ~Check3(ClaimsOf(tok), ls) THEN "LinkNotFound"
  ELSE IF ~Check4(ClaimsOf(tok), ls, us) THEN "OwnerChanged"
  ELSE IF ~Check5(ClaimsOf(tok), ls, us, ad) THEN "IssuerUnauthorized"
  ELSE IF ~Check6(ClaimsOf(tok), ls, user) THEN "CrossOrganization"
  ELSE "Accepted"

\* C9: the outcome of a redemption is that of the first failing check in
\* the order decode/signature/expiry, subject and permission, link exists,
\* snapshot owner is the owner, issuer authorized, redeemer of the link's
\* organization.
C9_FirstFailingCheckDecides ==
  Redeemed =>
    last.reason = ExpectedReason(last.tok, last.user, last.before, users, admins, now)

\* C10: every redemption attempt ends Accepted (normal return) or in
\* abort(403); no exception escapes the handler.
C10_AcceptedOr403 ==
  Redeemed => last.status \in {201, 403}

\* C11: a redemption attempt that does not end Accepted writes nothing:
\* the link records, the user records and the admins are after the attempt
\* what they were before it.
C11_RejectedWritesNothing ==
  [][(last = NoResult /\ last'.op = "redeem" /\ last'.status # 201)
       => (/\ links' = links
           /\ users' = users
           /\ admins' = admins
           /\ last'.before = links)]_vars

\* a token that passes checks 1 to 5 was refused at the last check, the
\* owner still the one before the attempt
C11_Witness ==
  /\ Redeemed /\ last.status = 403
  /\ last.stage = "issuer" /\ last.reason = "CrossOrganization"
  /\ links = last.before

\* C12 as claimed: the message of a rejected redemption is the uniform
\* text for every reason but two, Expired and OwnerChanged.
C12_UniformExceptTwo ==
  (Redeemed /\ last.status = 403) =>
    /\ last.message = "Your transfer link is no longer valid"
         <=> last.reason \notin {"TokenExpired", "OwnerChanged"}
    /\ last.reason = "TokenExpired" => last.message = "Your transfer link has expired"

\* C12 amended: the message of a rejected redemption is the uniform text
\* for every reason but three: Expired is told that the link has expired,
\* OwnerChanged that the owner has changed, IssuerUnauthorized that the
\* user who created the link no longer has edit rights.
C12_UniformExceptThree ==
  (Redeemed /\ last.status = 403) =>
    /\ last.message = "Your transfer link is no longer valid"
         <=> last.reason \notin {"TokenExpired", "OwnerChanged", "IssuerUnauthorized"}
    /\ last.reason = "TokenExpired" => last.message = "Your transfer link has expired"
    /\ last.reason = "OwnerChanged" => last.message = OWNER_CHANGED_MESSAGE
    /\ last.reason = "IssuerUnauthorized" => last.message = ISSUER_MESSAGE

\* a redeemer of another organization was told the uniform text, the
\* issuer of the token still authorized
C12_Witness ==
  /\ Redeemed /\ last.status = 403
  /\ last.reason = "CrossOrganization"
  /\ last.message = "Your transfer link is no longer valid"
  /\ Check5(ClaimsOf(last.tok), last.before, users, admins)

\* C13: a transfer token for a link is issued only to an actor who passes
\* the mutation predicate for that link at that time; its subject is
\* 'link:<link_id>', its permission 'transfer', its o the id of the user
\* record of the link's owner (not of the issuer) and its by the id of the
\* acting user; it is signed with the server secret.
C13_IssuedToAuthorizedWithClaims ==
  last.op = "issue" =>
    LET link == LinkNamed(last.before, last.link_id)
        p == ClaimsOf(last.tok)
    IN  /\ last.status = 201 =>
             /\ link # NoLink
             /\ MayMutate(link, last.user, admins)
             /\ last.tok \in issued
             /\ WellFormed(last.tok) /\ SignatureVerifies(last.tok)
             /\ DOMAIN p = {"exp", "sub", "tp", "o", "by"}
             /\ p.sub = <<"link:">> \o last.link_id
             /\ p.tp = "transfer"
             /\ \E u \in users : u.id = p.o /\ u.email = link.owner
             /\ p.by = last.user.id
        /\ last.status # 201 => (last.status = 403 /\ last.tok = NoToken)

\* an admin who is not the owner of the link was issued a token
C13_Witness ==
  /\ last.op = "issue" /\ last.status = 201
  /\ ClaimsOf(last.tok).o # ClaimsOf(last.tok).by
  /\ ClaimsOf(last.tok).by = last.user.id
  /\ last.user.email \in admins

\* C14 as claimed: a token whose exp is in the past ends Expired, whatever
\* else is wrong with it, a signature that does not verify included.
C14_ExpiredWhateverElse ==
  (Redeemed /\ WellFormed(last.tok) /\ ClaimsOf(last.tok).exp < now)
    => (last.status = 403 /\ last.reason = "TokenExpired")

\* C14 amended: a token signed with the server secret whose exp is in the
\* past ends Expired, whatever else is wrong with it (link deleted, owner
\* changed, issuer demoted, redeemer of another organization); a token
\* whose signature does not verify ends in the invalid rejection, expired
\* or not.
C14_ExpiredWhenSignatureVerifies ==
  (Redeemed /\ WellFormed(last.tok) /\ ClaimsOf(last.tok).exp < now) =>
    /\ last.status = 403
    /\ links = last.before
    /\ IF SignatureVerifies(last.tok)
       THEN /\ last.reason = "TokenExpired"
            /\ last.message = "Your transfer link has expired"
       ELSE /\ last.reason = "TokenMalformed"
            /\ last.message = "Your transfer link is no longer valid"

\* an expired token whose link has another owner by now was presented by
\* a user of another organization
C14_Witness ==
  /\ Redeemed /\ last.tok \in issued
  /\ ClaimsOf(last.tok).exp < now
  /\ Check3(ClaimsOf(last.tok), last.before)
  /\ ~Check4(ClaimsOf(last.tok), last.before, users)
  /\ ~Check6(ClaimsOf(last.tok), last.before, last.user)
  /\ last.reason = "TokenExpired"

\* C15: for every claim set whose exp is not in the past, decoding (re-pad,
\* base64url-decode, verify) the string that encoding (sign,
\* base64url-encode, strip '=') produced gives back exactly the claim set,
\* whatever the length of the string.
C15_RoundTrip ==
  (wire.pc = "done" /\ wire.claims.exp >= now) =>
    /\ wire.exc = ""
    /\ wire.decoded = wire.bytes
    /\ wire.payload = wire.claims

\* a claim set came back from a string of a length that is a multiple of
\* 4, which was padded with four '='
C15_Witness ==
  /\ wire.pc = "done" /\ wire.claims.exp >= now
  /\ StrLen(wire.sent) % 4 = 0
  /\ wire.padded.pad = 4
  /\ wire.payload = wire.claims

\* C16: a token signed with the server secret and not expired, whose
\* subject starts with 'link:' and goes on with something that is no
\* integer, is rejected as invalid: 403 with the uniform message.
C16_NonIntegerSubjectRejected ==
  (/\ Redeemed
   /\ Check1(last.tok, now)
   /\ Check2(ClaimsOf(last.tok))
   /\ ~IsIntLiteral(Tail(ClaimsOf(last.tok).sub)))
    => /\ last.status = 403
       /\ last.message = "Your transfer link is no longer valid"

\* C17: when the user the token names as issuer does not exist any more,
\* the link and its snapshot owner unchanged, redemption is rejected with
\* 403 (issuer unauthorized) and the link keeps its owner.
C17_AbsentIssuerRejected ==
  (/\ Redeemed
   /\ Check1(last.tok, now)
   /\ Check2(ClaimsOf(last.tok))
   /\ Check3(ClaimsOf(last.tok), last.before)
   /\ Check4(ClaimsOf(last.tok), last.before, users)
   /\ "by" \in DOMAIN ClaimsOf(last.tok)
   /\ get_user_by_id(users, ClaimsOf(last.tok).by) = NoUser)
    => /\ last.status = 403
       /\ last.reason = "IssuerUnauthorized"
       /\ links = last.before

\* C18: issuance writes nothing but, when the owner of the link has no
\* user record, that record: the links and the admins are what they were,
\* no user record is changed or removed, and no token is added to those
\* the server has accepted.
C18_IssuanceWritesOnlyOwnerRecord ==
  [][(last = NoResult /\ last'.op = "issue") =>
       LET link == LinkNamed(links, last'.link_id)
       IN  /\ links' = links
           /\ admins' = admins
           /\ accepted' = accepted
           /\ IF last'.status = 201 /\ get_user_by_email(users, link.owner) = NoUser
              THEN \E u \in users' :
                     /\ users' = users \cup {u}
                     /\ u.email = link.owner
                     /\ u.organization = link.organization
                     /\ \A v \in users : v.id # u.id
              ELSE users' = users]_vars

\* a token was issued for a link whose owner had no user record, and a
\* second one when the record was there
C18_Witness ==
  /\ last.op = "issue" /\ last.status = 201
  /\ Cardinality(issued) = 2
  /\ get_user_by_email(InitialUsers, LinkNamed(links, last.link_id).owner) = NoUser
  /\ get_user_by_email(users, LinkNamed(links, last.link_id).owner) # NoUser
  /\ links = last.before

====
